---- MODULE Spec2Model ----
(***************************************************************************)
(* Model of amoffat/powerset (src/powerset.go).                            *)
(*                                                                         *)
(* Two families of state machines over one set of variables:               *)
(*   - the pipelines FixedSize / VariableSize: stage A (powerSet), stage B *)
(*     (the converter goroutine), the consumer and the stop() closure;     *)
(*   - Callback: the recursion powerSetCallback with the caller's decision *)
(*     function cb drawn nondeterministically.                             *)
(* Recursion is modelled with an explicit stack of frames, one action per  *)
(* step between two points where a goroutine touches shared state or calls *)
(* or returns.  Unbuffered channels are rendezvous: a send and its receive *)
(* are one action.  Go slices are sequences (item i at position i+1).      *)
(***************************************************************************)
EXTENDS Integers, Sequences, FiniteSets, TLC

\* ------------------------------------------------------------------ bounds
\* largest lenItems tried
MaxN == 3
\* at most this many cb invocations of one Callback run answer stop=true
MaxStops == 1
\* longest Path handed to ValidatePath
MaxLen == 2

\* the deepest call stack a goroutine is given before the runtime ends the
\* program with a stack overflow; a walk of lenItems >= 0 needs lenItems + 1
MaxDepth == MaxN + 2

\* ------------------------------------------------------------ linked lists
\* linkedlist.New(nil): one node whose Data is nil and whose Next is nil.  A
\* list is the sequence of its nodes' Data, head first; the int lists use
\* Nil for the nil Data of that last node, the path list uses NilNode.
Nil == -1

NilNode == [Index |-> Nil, Included |-> FALSE]

NewList == <<Nil>>

NewPathList == <<NilNode>>

\* indices.Push(x): a new head in front of the list
Push(list, x) == <<x>> \o list

\* indices.Pop(): the list without its head
Pop(list) == Tail(list)

RECURSIVE FixedLoop(_, _)
FixedLoop(unpacked, head) ==
    IF head = <<>> \/ Head(head) = Nil
    THEN unpacked
    ELSE FixedLoop([unpacked EXCEPT ![Head(head) + 1] = TRUE], Tail(head))

\* llToIndicesFixed with the walk started at head.Next: the latest index lost
llToIndicesFixedSkipHead(n, indices) ==
    LET unpackedIndices == [i \in 1..n |-> FALSE]
    IN  IF Len(indices) = 1
        THEN unpackedIndices
        ELSE FixedLoop(unpackedIndices, Tail(indices))

\* llToIndicesFixed(lenItems, indices): []bool of length lenItems
llToIndicesFixed(n, indices) ==
    LET unpackedIndices == [i \in 1..n |-> FALSE]
    IN  IF Len(indices) = 1
        THEN unpackedIndices
        ELSE FixedLoop(unpackedIndices, indices)

RECURSIVE VariableLoop(_, _)
VariableLoop(unpacked, head) ==
    IF head = <<>> \/ Head(head) = Nil
    THEN unpacked
    ELSE VariableLoop(Append(unpacked, Head(head)), Tail(head))

RECURSIVE VariableLoopPrepend(_, _)
VariableLoopPrepend(unpacked, head) ==
    IF head = <<>> \/ Head(head) = Nil
    THEN unpacked
    ELSE VariableLoopPrepend(<<Head(head)>> \o unpacked, Tail(head))

\* llToIndicesVariable that puts each index in front of the slice: ascending
llToIndicesVariableAscending(indices) ==
    IF Len(indices) = 1
    THEN <<>>
    ELSE VariableLoopPrepend(<<>>, indices)

\* llToIndicesVariable(indices): []int, the list's Data from the head on
llToIndicesVariable(indices) ==
    IF Len(indices) = 1
    THEN <<>>
    ELSE VariableLoop(<<>>, indices)

RECURSIVE PathLoop(_, _)
PathLoop(unpacked, head) ==
    IF head = <<>> \/ Head(head) = NilNode
    THEN unpacked
    ELSE PathLoop(Append(unpacked, Head(head)), Tail(head))

\* llToPath with the walk started at head.Next: the latest decision lost
llToPathSkipHead(indices) ==
    IF Len(indices) = 1
    THEN <<>>
    ELSE PathLoop(<<>>, Tail(indices))

\* llToPath(path): Path, the PathNodes from the head (latest decision) on
llToPath(indices) ==
    IF Len(indices) = 1
    THEN <<>>
    ELSE PathLoop(<<>>, indices)

\* ValidatePath that compares only as far as the shorter path goes, without
\* the test of the lengths
ValidatePathNoLenTest(path, check) ==
    \A i \in 1..Len(path) : i <= Len(check) => path[i] = check[i]

\* ValidatePath(path, check)
ValidatePath(path, check) ==
    IF Len(path) # Len(check)
    THEN FALSE
    ELSE \A i \in 1..Len(path) : path[i] = check[i]

\* --------------------------------------------------------------- variables
Pipes == {"fixed", "variable"}

VARIABLES
    lenItems,    \* the argument lenItems (k of powerSet / powerSetCallback)
    active,      \* the pipelines that were started
    aStack,      \* per pipeline: powerSet's call stack, innermost frame last
    aRet,        \* per pipeline: value a powerSet call just returned
    aPc,         \* per pipeline: stage A's position
    bPc,         \* per pipeline: stage B's position
    bRaw,        \* per pipeline: the linkedlist.Node stage B received
    bOut,        \* per pipeline: unpackedIndices of stage B
    indicesOutClosed,  \* per pipeline: close(indicesOut) has run
    outClosed,   \* per pipeline: close(out) has run
    stopInClosed,\* per pipeline: close(stopIn) has run
    wg,          \* per pipeline: the WaitGroup counter
    cPc,         \* per pipeline: the consumer's position
    stopPc,      \* per pipeline: the position of the stop() call
    received,    \* per pipeline: what the consumer received from out
    handed,      \* per pipeline, history: how many leaves stage A handed over
    lateHandoffs,\* per pipeline, history: how many of them after close(stopIn)
    handedPath,  \* per pipeline, history: the indices stage A's path included
                 \* at the latest handoff
    cbStack,     \* powerSetCallback's call stack, innermost frame last
    cbRet,       \* the (stop, stopNode) a powerSetCallback call just returned
    cbPc,        \* the position of Callback's goroutine
    cbOutClosed, \* close(out) of Callback's stream has run
    stopsLeft,   \* how many more stop=true answers cb may give
    emitMode,    \* which invocations of cb send their path on out
    cbCons,      \* the position of the consumer of Callback's stream
    cbReceived,  \* history: what the consumer received from Callback's out
    calls,       \* history: the arguments of every cb invocation, in order
    answers,     \* history: what every finished cb invocation returned
    vpPath,      \* ValidatePath's argument path
    vpCheck,     \* ValidatePath's argument check
    vpResult,    \* what ValidatePath returned
    vpPc,        \* the position of the ValidatePath call
    llPushed,    \* history: the indices pushed on the list, in order
    llList,      \* the linked list handed to llToIndicesFixed / Variable
    llFn,        \* which of the two conversions is called
    llResult,    \* what the conversion returned
    llPc         \* the position of the conversion call

handVars == <<handed, lateHandoffs, handedPath>>

pipeVars == <<active, aStack, aRet, aPc, bPc, bRaw, bOut, indicesOutClosed,
              outClosed, stopInClosed, wg, cPc, stopPc, received, handVars>>

vpVars == <<vpPath, vpCheck, vpResult, vpPc>>

llVars == <<llPushed, llList, llFn, llResult, llPc>>

helperVars == <<vpVars, llVars>>

emitVars == <<emitMode, cbCons, cbReceived>>

cbVars == <<cbStack, cbRet, cbPc, cbOutClosed, stopsLeft, emitVars, calls, answers>>

vars == <<lenItems, pipeVars, cbVars, helperVars>>

\* ------------------------------------------------------------ ValidatePath
\* the Paths ValidatePath is called with: any PathNodes, in any order
PathNodes == [Index : 0..(MaxLen - 1), Included : BOOLEAN]

Paths == UNION {[1..k -> PathNodes] : k \in 0..MaxLen}

\* no ValidatePath call
ValidatePathIdle ==
    /\ vpPath = <<>>
    /\ vpCheck = <<>>
    /\ vpResult = FALSE
    /\ vpPc = "idle"

\* a caller about to call ValidatePath(path, check)
ValidatePathCalled(path, check) ==
    /\ vpPath = path
    /\ vpCheck = check
    /\ vpResult = FALSE
    /\ vpPc = "call"

\* ValidatePath(path, check) runs and returns
validatePathReturn ==
    /\ vpPc = "call"
    /\ vpResult' = ValidatePath(vpPath, vpCheck)
    /\ vpPc' = "returned"
    /\ UNCHANGED <<lenItems, pipeVars, cbVars, vpPath, vpCheck, llVars>>

\* ------------------------------- llToIndicesFixed / llToIndicesVariable
\* the lists the conversions are called with: linkedlist.New(nil) with up to
\* MaxN indices below n pushed on it, in any order
PushSeqs(n) == UNION {[1..k -> 0..(n - 1)] : k \in 0..MaxN}

\* the list after the pushes, the first of them deepest
RECURSIVE PushAll(_, _)
PushAll(list, pushes) ==
    IF pushes = <<>> THEN list
    ELSE PushAll(Push(list, Head(pushes)), Tail(pushes))

\* no conversion call
ConversionIdle ==
    /\ llPushed = <<>>
    /\ llList = NewList
    /\ llFn = "none"
    /\ llResult = <<>>
    /\ llPc = "idle"

HelpersIdle == ValidatePathIdle /\ ConversionIdle

\* a caller about to call conversion fn on the list built by pushes
ConversionCalled(fn, pushes) ==
    /\ llPushed = pushes
    /\ llList = PushAll(NewList, pushes)
    /\ llFn = fn
    /\ llResult = <<>>
    /\ llPc = "call"

\* llToIndicesFixed(lenItems, indices) runs and returns
llToIndicesFixedReturn ==
    /\ llPc = "call"
    /\ llFn = "fixed"
    /\ llResult' = llToIndicesFixed(lenItems, llList)
    /\ llPc' = "returned"
    /\ UNCHANGED <<lenItems, pipeVars, cbVars, vpVars, llPushed, llList, llFn>>

\* llToIndicesVariable(indices) runs and returns
llToIndicesVariableReturn ==
    /\ llPc = "call"
    /\ llFn = "variable"
    /\ llResult' = llToIndicesVariable(llList)
    /\ llPc' = "returned"
    /\ UNCHANGED <<lenItems, pipeVars, cbVars, vpVars, llPushed, llList, llFn>>

\* ------------------------------------------------ FixedSize / VariableSize
\* the state right after FixedSize(n) / VariableSize(n) returned: both
\* goroutines started, wg.Add(2) done, nothing sent yet
\* a panic (close of or send on a closed channel, a negative WaitGroup
\* counter) or a stack overflow ends the program
Crashed(p) ==
    \/ stopPc[p] = "panic"
    \/ aPc[p] \in {"panic", "overflow"}
    \/ bPc[p] = "panic"

Started(p) == p \in active /\ ~Crashed(p)

StartPipelines(ps, n) ==
    /\ lenItems = n
    /\ active = ps
    /\ aStack = [p \in Pipes |->
                   IF p \in ps THEN <<[n |-> 0, pc |-> "start", indices |-> NewList]>>
                   ELSE <<>>]
    /\ aRet = [p \in Pipes |-> "none"]
    /\ aPc = [p \in Pipes |-> IF p \in ps THEN "run" ELSE "idle"]
    /\ bPc = [p \in Pipes |-> IF p \in ps THEN "recv" ELSE "idle"]
    /\ bRaw = [p \in Pipes |-> <<>>]
    /\ bOut = [p \in Pipes |-> <<>>]
    /\ indicesOutClosed = [p \in Pipes |-> FALSE]
    /\ outClosed = [p \in Pipes |-> FALSE]
    /\ stopInClosed = [p \in Pipes |-> FALSE]
    /\ wg = [p \in Pipes |-> IF p \in ps THEN 2 ELSE 0]
    /\ cPc = [p \in Pipes |-> IF p \in ps THEN "reading" ELSE "idle"]
    /\ stopPc = [p \in Pipes |-> "idle"]
    /\ received = [p \in Pipes |-> <<>>]
    /\ handed = [p \in Pipes |-> 0]
    /\ lateHandoffs = [p \in Pipes |-> 0]
    /\ handedPath = [p \in Pipes |-> {}]

Top(stack) == stack[Len(stack)]

\* the indices a powerSet call stack has included: the n of every frame that
\* is inside its second call, the one made after indices.Push(n)
IncludedOnPath(stack) == {stack[i].n : i \in {j \in 1..Len(stack) : stack[j].pc = "right"}}

SetTop(stack, f) == [stack EXCEPT ![Len(stack)] = f]

DropTop(stack) == SubSeq(stack, 1, Len(stack) - 1)

\* powerSetReturn with the two calls deferred by every frame, not only by
\* the one with n == 0
powerSetReturnAllDefer(p, done) ==
    /\ aStack' = [aStack EXCEPT ![p] = DropTop(@)]
    /\ aRet' = [aRet EXCEPT ![p] = IF done THEN "true" ELSE "false"]
    /\ aPc' = [aPc EXCEPT ![p] = "wgDone"]

\* powerSetReturn without the deferred calls: the n == 0 frame just returns
powerSetReturnNoDefer(p, done) ==
    /\ aStack' = [aStack EXCEPT ![p] = DropTop(@)]
    /\ aRet' = [aRet EXCEPT ![p] = IF done THEN "true" ELSE "false"]
    /\ aPc' = [aPc EXCEPT ![p] = IF Top(aStack[p]).n = 0 THEN "exited" ELSE "run"]

\* a powerSet call returns `done`: its frame goes, the caller sees the value;
\* a frame with n == 0 has the deferred wg.Done() and close(out) to run
powerSetReturn(p, done) ==
    /\ aStack' = [aStack EXCEPT ![p] = DropTop(@)]
    /\ aRet' = [aRet EXCEPT ![p] = IF done THEN "true" ELSE "false"]
    /\ aPc' = [aPc EXCEPT ![p] = IF Top(aStack[p]).n = 0 THEN "wgDone" ELSE "run"]

AtStart(p) ==
    /\ Started(p)
    /\ aPc[p] = "run"
    /\ aRet[p] = "none"
    /\ aStack[p] # <<>>
    /\ Top(aStack[p]).pc = "start"

\* leaf, select case <-stopIn: return true
powerSetLeafStop(p) ==
    /\ AtStart(p)
    /\ Top(aStack[p]).n = lenItems
    /\ stopInClosed[p]
    /\ powerSetReturn(p, TRUE)
    /\ UNCHANGED <<helperVars, handVars, cbVars, lenItems, active, bPc, bRaw, bOut, indicesOutClosed, outClosed,
                   stopInClosed, wg, cPc, stopPc, received>>

\* powerSetLeafSend that does not wait for stage B to be receiving
powerSetLeafSendBuffered(p) ==
    /\ AtStart(p)
    /\ Top(aStack[p]).n = lenItems
    /\ ~indicesOutClosed[p]
    /\ bPc[p] \in {"recv", "convert", "select"}
    /\ bRaw' = [bRaw EXCEPT ![p] = Top(aStack[p]).indices]
    /\ bPc' = [bPc EXCEPT ![p] = "convert"]
    /\ handed' = [handed EXCEPT ![p] = @ + 1]
    /\ lateHandoffs' = [lateHandoffs EXCEPT ![p] =
                          IF stopInClosed[p] THEN @ + 1 ELSE @]
    /\ handedPath' = [handedPath EXCEPT ![p] = IncludedOnPath(aStack[p])]
    /\ powerSetReturn(p, FALSE)
    /\ UNCHANGED <<helperVars, cbVars, lenItems, active, bOut, indicesOutClosed, outClosed,
                   stopInClosed, wg, cPc, stopPc, received>>

\* leaf, select case out <- *indices: stage B, waiting in its range loop,
\* takes the node; return done (false).  A send on a closed channel panics
powerSetLeafSend(p) ==
    /\ AtStart(p)
    /\ Top(aStack[p]).n = lenItems
    /\ IF indicesOutClosed[p]
       THEN /\ aPc' = [aPc EXCEPT ![p] = "panic"]
            /\ UNCHANGED <<aStack, aRet, bRaw, bPc, handVars>>
       ELSE /\ bPc[p] = "recv"
            /\ bRaw' = [bRaw EXCEPT ![p] = Top(aStack[p]).indices]
            /\ bPc' = [bPc EXCEPT ![p] = "convert"]
            /\ handed' = [handed EXCEPT ![p] = @ + 1]
            /\ lateHandoffs' = [lateHandoffs EXCEPT ![p] =
                                  IF stopInClosed[p] THEN @ + 1 ELSE @]
            /\ handedPath' = [handedPath EXCEPT ![p] = IncludedOnPath(aStack[p])]
            /\ powerSetReturn(p, FALSE)
    /\ UNCHANGED <<helperVars, cbVars, lenItems, active, bOut, indicesOutClosed, outClosed,
                   stopInClosed, wg, cPc, stopPc, received>>

\* inner node, select case <-stopIn: return true
powerSetNodeStop(p) ==
    /\ AtStart(p)
    /\ Top(aStack[p]).n # lenItems
    /\ stopInClosed[p]
    /\ powerSetReturn(p, TRUE)
    /\ UNCHANGED <<helperVars, handVars, cbVars, lenItems, active, bPc, bRaw, bOut, indicesOutClosed, outClosed,
                   stopInClosed, wg, cPc, stopPc, received>>

\* inner node, select default: done = powerSet(n+1, k, indices, ...); a call
\* beyond the goroutine's stack limit is a fatal stack overflow
powerSetLeft(p) ==
    /\ AtStart(p)
    /\ Top(aStack[p]).n # lenItems
    /\ ~stopInClosed[p]
    /\ LET f == Top(aStack[p])
       IN  IF Len(aStack[p]) >= MaxDepth
           THEN /\ aPc' = [aPc EXCEPT ![p] = "overflow"]
                /\ UNCHANGED aStack
           ELSE /\ aStack' = [aStack EXCEPT ![p] =
                      Append(SetTop(@, [f EXCEPT !.pc = "left"]),
                             [n |-> f.n + 1, pc |-> "start", indices |-> f.indices])]
                /\ UNCHANGED aPc
    /\ UNCHANGED <<helperVars, handVars, cbVars, lenItems, active, aRet, bPc, bRaw, bOut, indicesOutClosed,
                   outClosed, stopInClosed, wg, cPc, stopPc, received>>

\* powerSetRight with the right call made on the list without n pushed
powerSetRightNoPush(p) ==
    /\ Started(p)
    /\ aPc[p] = "run"
    /\ aRet[p] # "none"
    /\ Top(aStack[p]).pc = "left"
    /\ LET f == Top(aStack[p])
       IN  IF aRet[p] = "false"
           THEN /\ aStack' = [aStack EXCEPT ![p] =
                      Append(SetTop(@, [f EXCEPT !.pc = "right"]),
                             [n |-> f.n + 1, pc |-> "start", indices |-> f.indices])]
                /\ aRet' = [aRet EXCEPT ![p] = "none"]
                /\ UNCHANGED aPc
           ELSE powerSetReturn(p, TRUE)
    /\ UNCHANGED <<helperVars, handVars, cbVars, lenItems, active, bPc, bRaw, bOut, indicesOutClosed, outClosed,
                   stopInClosed, wg, cPc, stopPc, received>>

\* the left call returned: if !done { indices = indices.Push(n); done =
\* powerSet(n+1, ...) }, else return done
powerSetRight(p) ==
    /\ Started(p)
    /\ aPc[p] = "run"
    /\ aRet[p] # "none"
    /\ Top(aStack[p]).pc = "left"
    /\ LET f == Top(aStack[p])
       IN  IF aRet[p] = "false"
           THEN /\ aStack' = [aStack EXCEPT ![p] =
                      Append(SetTop(@, [f EXCEPT !.pc = "right",
                                                 !.indices = Push(f.indices, f.n)]),
                             [n |-> f.n + 1, pc |-> "start",
                              indices |-> Push(f.indices, f.n)])]
                /\ aRet' = [aRet EXCEPT ![p] = "none"]
                /\ UNCHANGED aPc
           ELSE powerSetReturn(p, TRUE)
    /\ UNCHANGED <<helperVars, handVars, cbVars, lenItems, active, bPc, bRaw, bOut, indicesOutClosed, outClosed,
                   stopInClosed, wg, cPc, stopPc, received>>

\* the right call returned: indices, _ = indices.Pop(); return done
powerSetPop(p) ==
    /\ Started(p)
    /\ aPc[p] = "run"
    /\ aRet[p] # "none"
    /\ Top(aStack[p]).pc = "right"
    /\ powerSetReturn(p, aRet[p] = "true")
    /\ UNCHANGED <<helperVars, handVars, cbVars, lenItems, active, bPc, bRaw, bOut, indicesOutClosed, outClosed,
                   stopInClosed, wg, cPc, stopPc, received>>

\* n = 0 frame returning: deferred wg.Done() (deferred last, runs first); a
\* counter going negative panics
powerSetWgDone(p) ==
    /\ Started(p)
    /\ aPc[p] = "wgDone"
    /\ IF wg[p] = 0
       THEN /\ aPc' = [aPc EXCEPT ![p] = "panic"]
            /\ UNCHANGED wg
       ELSE /\ wg' = [wg EXCEPT ![p] = @ - 1]
            /\ aPc' = [aPc EXCEPT ![p] = "close"]
    /\ UNCHANGED <<helperVars, handVars, cbVars, lenItems, active, aStack, aRet, bPc, bRaw, bOut, indicesOutClosed,
                   outClosed, stopInClosed, cPc, stopPc, received>>

\* n = 0 frame returning: deferred close(out), the handoff channel, then back
\* to the caller or, for the outermost frame, the end of the goroutine;
\* closing a closed channel panics
powerSetClose(p) ==
    /\ Started(p)
    /\ aPc[p] = "close"
    /\ IF indicesOutClosed[p]
       THEN /\ aPc' = [aPc EXCEPT ![p] = "panic"]
            /\ UNCHANGED indicesOutClosed
       ELSE /\ indicesOutClosed' = [indicesOutClosed EXCEPT ![p] = TRUE]
            /\ aPc' = [aPc EXCEPT ![p] = IF aStack[p] = <<>> THEN "exited" ELSE "run"]
    /\ UNCHANGED <<helperVars, handVars, cbVars, lenItems, active, aStack, aRet, bPc, bRaw, bOut, outClosed,
                   stopInClosed, wg, cPc, stopPc, received>>

\* Unpack with the two conversions swapped
UnpackSwapped(p, raw) ==
    IF p = "fixed" THEN llToIndicesVariable(raw) ELSE llToIndicesFixed(lenItems, raw)

\* stage B: unpackedIndices := llToIndicesFixed(lenItems, &indices), or
\* llToIndicesVariable(&indices) in VariableSize
Unpack(p, raw) ==
    IF p = "fixed" THEN llToIndicesFixed(lenItems, raw) ELSE llToIndicesVariable(raw)

\* stageBConvert on a list shared with stage A and changed in place by its
\* Push and Pop: the conversion reads what stage A holds by then
stageBConvertShared(p) ==
    /\ Started(p)
    /\ bPc[p] = "convert"
    /\ bOut' = [bOut EXCEPT ![p] =
                  Unpack(p, IF aStack[p] = <<>> THEN NewList ELSE Top(aStack[p]).indices)]
    /\ bPc' = [bPc EXCEPT ![p] = "select"]
    /\ UNCHANGED <<helperVars, handVars, cbVars, lenItems, active, aStack, aRet, aPc, bRaw, indicesOutClosed,
                   outClosed, stopInClosed, wg, cPc, stopPc, received>>

stageBConvert(p) ==
    /\ Started(p)
    /\ bPc[p] = "convert"
    /\ bOut' = [bOut EXCEPT ![p] = Unpack(p, bRaw[p])]
    /\ bPc' = [bPc EXCEPT ![p] = "select"]
    /\ UNCHANGED <<helperVars, handVars, cbVars, lenItems, active, aStack, aRet, aPc, bRaw, indicesOutClosed,
                   outClosed, stopInClosed, wg, cPc, stopPc, received>>

\* stage B's select with a default case: the result is dropped whenever the
\* consumer is not there to take it
stageBSkipDefault(p) ==
    /\ Started(p)
    /\ bPc[p] = "select"
    /\ stopInClosed[p] \/ cPc[p] # "reading"
    /\ bPc' = [bPc EXCEPT ![p] = "recv"]
    /\ UNCHANGED <<helperVars, handVars, cbVars, lenItems, active, aStack, aRet, aPc, bRaw, bOut,
                   indicesOutClosed, outClosed, stopInClosed, wg, cPc, stopPc, received>>

\* stageBSkip with a break that leaves the range loop: stage B returns
stageBSkipLeavesLoop(p) ==
    /\ Started(p)
    /\ bPc[p] = "select"
    /\ stopInClosed[p]
    /\ bPc' = [bPc EXCEPT ![p] = "wgDone"]
    /\ UNCHANGED <<helperVars, handVars, cbVars, lenItems, active, aStack, aRet, aPc, bRaw, bOut, indicesOutClosed,
                   outClosed, stopInClosed, wg, cPc, stopPc, received>>

\* stage B, select case <-stopIn: break (leaves the select, not the loop)
stageBSkip(p) ==
    /\ Started(p)
    /\ bPc[p] = "select"
    /\ stopInClosed[p]
    /\ bPc' = [bPc EXCEPT ![p] = "recv"]
    /\ UNCHANGED <<helperVars, handVars, cbVars, lenItems, active, aStack, aRet, aPc, bRaw, bOut, indicesOutClosed,
                   outClosed, stopInClosed, wg, cPc, stopPc, received>>

\* stage B, select case out <- unpackedIndices: the consumer, in its range
\* loop over out, receives it.  A send on a closed channel panics
stageBSend(p) ==
    /\ Started(p)
    /\ bPc[p] = "select"
    /\ IF outClosed[p]
       THEN /\ bPc' = [bPc EXCEPT ![p] = "panic"]
            /\ UNCHANGED received
       ELSE /\ cPc[p] = "reading"
            /\ received' = [received EXCEPT ![p] = Append(@, bOut[p])]
            /\ bPc' = [bPc EXCEPT ![p] = "recv"]
    /\ UNCHANGED <<helperVars, handVars, cbVars, lenItems, active, aStack, aRet, aPc, bRaw, bOut, indicesOutClosed,
                   outClosed, stopInClosed, wg, cPc, stopPc>>

\* stage B: range indicesOut ends, the channel is closed and empty
stageBRangeEnd(p) ==
    /\ Started(p)
    /\ bPc[p] = "recv"
    /\ indicesOutClosed[p]
    /\ bPc' = [bPc EXCEPT ![p] = "wgDone"]
    /\ UNCHANGED <<helperVars, handVars, cbVars, lenItems, active, aStack, aRet, aPc, bRaw, bOut, indicesOutClosed,
                   outClosed, stopInClosed, wg, cPc, stopPc, received>>

\* stage B without its deferred wg.Done(): the counter is left as it is
stageBWgDoneMissing(p) ==
    /\ Started(p)
    /\ bPc[p] = "wgDone"
    /\ bPc' = [bPc EXCEPT ![p] = "close"]
    /\ UNCHANGED <<helperVars, handVars, cbVars, lenItems, active, aStack, aRet, aPc, bRaw, bOut, indicesOutClosed,
                   outClosed, stopInClosed, wg, cPc, stopPc, received>>

\* stage B: deferred wg.Done(); a counter going negative panics
stageBWgDone(p) ==
    /\ Started(p)
    /\ bPc[p] = "wgDone"
    /\ IF wg[p] = 0
       THEN /\ bPc' = [bPc EXCEPT ![p] = "panic"]
            /\ UNCHANGED wg
       ELSE /\ wg' = [wg EXCEPT ![p] = @ - 1]
            /\ bPc' = [bPc EXCEPT ![p] = "close"]
    /\ UNCHANGED <<helperVars, handVars, cbVars, lenItems, active, aStack, aRet, aPc, bRaw, bOut, indicesOutClosed,
                   outClosed, stopInClosed, cPc, stopPc, received>>

\* stage B: deferred close(out), the result stream; closing a closed channel
\* panics
stageBClose(p) ==
    /\ Started(p)
    /\ bPc[p] = "close"
    /\ IF outClosed[p]
       THEN /\ bPc' = [bPc EXCEPT ![p] = "panic"]
            /\ UNCHANGED outClosed
       ELSE /\ outClosed' = [outClosed EXCEPT ![p] = TRUE]
            /\ bPc' = [bPc EXCEPT ![p] = "exited"]
    /\ UNCHANGED <<helperVars, handVars, cbVars, lenItems, active, aStack, aRet, aPc, bRaw, bOut, indicesOutClosed,
                   stopInClosed, wg, cPc, stopPc, received>>

\* the consumer's range loop over out ends: out is closed
consumerRangeEnd(p) ==
    /\ Started(p)
    /\ cPc[p] = "reading"
    /\ outClosed[p]
    /\ cPc' = [cPc EXCEPT ![p] = "drained"]
    /\ UNCHANGED <<helperVars, handVars, cbVars, lenItems, active, aStack, aRet, aPc, bPc, bRaw, bOut,
                   indicesOutClosed, outClosed, stopInClosed, wg, stopPc, received>>

\* stop() that only waits: in is left open, no stage is told to stop
closeInNoSignal(p) ==
    /\ stopPc' = [stopPc EXCEPT ![p] = "wait"]
    /\ UNCHANGED stopInClosed

\* the consumer leaves its loop for good without calling stop()
consumerQuit(p) ==
    /\ Started(p)
    /\ cPc[p] = "reading"
    /\ stopPc[p] = "idle"
    /\ cPc' = [cPc EXCEPT ![p] = "quit"]
    /\ UNCHANGED <<helperVars, handVars, cbVars, lenItems, active, aStack, aRet, aPc, bPc, bRaw,
                   bOut, indicesOutClosed, outClosed, stopInClosed, wg, stopPc, received>>

\* close(in) of stop(): closing a closed channel panics
closeIn(p) ==
    IF stopInClosed[p]
    THEN /\ stopPc' = [stopPc EXCEPT ![p] = "panic"]
         /\ UNCHANGED stopInClosed
    ELSE /\ stopInClosed' = [stopInClosed EXCEPT ![p] = TRUE]
         /\ stopPc' = [stopPc EXCEPT ![p] = "wait"]

\* the consumer leaves its loop and calls stop(): close(in)
stopClose(p) ==
    /\ Started(p)
    /\ stopPc[p] = "idle"
    /\ cPc[p] \in {"reading", "drained"}
    /\ closeIn(p)
    /\ cPc' = [cPc EXCEPT ![p] = IF @ = "reading" THEN "left" ELSE @]
    /\ UNCHANGED <<helperVars, handVars, cbVars, lenItems, active, aStack, aRet, aPc, bPc, bRaw, bOut,
                   indicesOutClosed, outClosed, wg, received>>

\* the consumer calls stop() again after an earlier call has returned:
\* close(in)
stopAgain(p) ==
    /\ Started(p)
    /\ stopPc[p] = "returned"
    /\ closeIn(p)
    /\ UNCHANGED <<helperVars, handVars, cbVars, lenItems, active, aStack, aRet, aPc, bPc, bRaw, bOut,
                   indicesOutClosed, outClosed, wg, cPc, received>>

\* wg.Wait() returning as soon as one of the two stages is done
stopWaitForOne(p) ==
    /\ Started(p)
    /\ stopPc[p] = "wait"
    /\ wg[p] <= 1
    /\ stopPc' = [stopPc EXCEPT ![p] = "returned"]
    /\ UNCHANGED <<helperVars, handVars, cbVars, lenItems, active, aStack, aRet, aPc, bPc, bRaw, bOut,
                   indicesOutClosed, outClosed, stopInClosed, wg, cPc, received>>

\* stop(): wg.Wait() returns once the counter is 0
stopWait(p) ==
    /\ Started(p)
    /\ stopPc[p] = "wait"
    /\ wg[p] = 0
    /\ stopPc' = [stopPc EXCEPT ![p] = "returned"]
    /\ UNCHANGED <<helperVars, handVars, cbVars, lenItems, active, aStack, aRet, aPc, bPc, bRaw, bOut,
                   indicesOutClosed, outClosed, stopInClosed, wg, cPc, received>>

\* ---------------------------------------------------------------- Callback
\* The state the decision function hands on is that of the tests' visit
\* (stringState): the node put in front of the state it was given, the root
\* answering the empty state.  Every node thus hands on a state of its own.
initialState == <<>>

nextState(path, state) ==
    IF Len(path) > 0 THEN <<path[1]>> \o state ELSE <<>>

\* the answers (stop, stopNode) cb may give at a node of depth n: no stop
\* (false, 0), or a stop up to any level, in range or not
Directives(n) ==
    {[stop |-> FALSE, stopNode |-> 0]} \cup
    {[stop |-> TRUE, stopNode |-> l] : l \in (0 - 2)..(n + 1)}

NoRet == [has |-> FALSE, stop |-> FALSE, stopNode |-> 0]

\* no Callback run
CallbackIdle ==
    /\ cbStack = <<>>
    /\ cbRet = NoRet
    /\ cbPc = "idle"
    /\ cbOutClosed = FALSE
    /\ stopsLeft = 0
    /\ emitMode = "none"
    /\ cbCons = "idle"
    /\ cbReceived = <<>>
    /\ calls = <<>>
    /\ answers = <<>>

\* the state right after Callback(n, cb, state) returned out: the goroutine
\* powerSetCallback(0, lenItems, indices, wrappedCb, path, state, out) started,
\* the caller about to range over out.  cb is a decision function that sends
\* its path on out at no node ("none", as the visit of TestCallbackTerminate),
\* at every node ("all", as the visit of TestCallback) or at every leaf
\* ("leaf", as the README's example does with its solutions), and answers
\* stop=true at most `stops` times
Callback(n, mode, stops) ==
    /\ lenItems = n
    /\ cbStack = <<[n |-> 0, pc |-> "start", path |-> NewPathList,
                    indices |-> NewList, state |-> initialState]>>
    /\ cbRet = NoRet
    /\ cbPc = "run"
    /\ cbOutClosed = FALSE
    /\ stopsLeft = stops
    /\ emitMode = mode
    /\ cbCons = "reading"
    /\ cbReceived = <<>>
    /\ calls = <<>>
    /\ answers = <<>>

\* powerSetCallbackReturn without the deferred close(out): the root frame
\* just returns and the goroutine ends
powerSetCallbackReturnNoClose(stop, stopNode) ==
    /\ cbStack' = DropTop(cbStack)
    /\ cbRet' = [has |-> TRUE, stop |-> stop, stopNode |-> stopNode]
    /\ cbPc' = IF Top(cbStack).n = 0 THEN "exited" ELSE "run"

\* powerSetCallbackReturn with the close(out) deferred by the leaf frames
\* (isRoot := n == k)
powerSetCallbackReturnLeafCloses(stop, stopNode) ==
    /\ cbStack' = DropTop(cbStack)
    /\ cbRet' = [has |-> TRUE, stop |-> stop, stopNode |-> stopNode]
    /\ cbPc' = IF Top(cbStack).n = lenItems THEN "close" ELSE "run"

\* a powerSetCallback call returns (stop, stopNode): its frame goes; a frame
\* with isRoot (n == 0) has the deferred close(out) to run
powerSetCallbackReturn(stop, stopNode) ==
    /\ cbStack' = DropTop(cbStack)
    /\ cbRet' = [has |-> TRUE, stop |-> stop, stopNode |-> stopNode]
    /\ cbPc' = IF Top(cbStack).n = 0 THEN "close" ELSE "run"

\* powerSetCallback(n+1, k, indices, cb, path, state, out) called from frame f
\* that goes on at pc; a call beyond the goroutine's stack limit is a fatal
\* stack overflow
powerSetCallbackCall(f, pc, path, indices) ==
    IF Len(cbStack) >= MaxDepth
    THEN /\ cbPc' = "overflow"
         /\ UNCHANGED <<cbStack, cbRet>>
    ELSE /\ cbStack' = Append(SetTop(cbStack, [f EXCEPT !.pc = pc, !.path = path,
                                                        !.indices = indices]),
                              [n |-> f.n + 1, pc |-> "start", path |-> path,
                               indices |-> indices, state |-> f.state])
         /\ cbRet' = NoRet
         /\ UNCHANGED cbPc

\* cb(path, isLeaf, state) is entered: wrappedCb hands it llToPath(path)
cbEnter ==
    /\ cbPc = "run"
    /\ cbStack # <<>>
    /\ Top(cbStack).pc = "start"
    /\ LET f == Top(cbStack)
       IN  /\ calls' = Append(calls, [path |-> llToPath(f.path),
                                      isLeaf |-> (f.n = lenItems),
                                      state |-> f.state])
           /\ cbStack' = SetTop(cbStack, [f EXCEPT !.pc = "cb"])
    /\ UNCHANGED <<helperVars, lenItems, pipeVars, emitVars, cbRet, cbPc, cbOutClosed,
                   stopsLeft, answers>>

\* afterCb walking the included branch first
afterCbIncludedFirst(f, d, next) ==
    IF d.stop /\ f.n > d.stopNode
    THEN powerSetCallbackReturn(TRUE, d.stopNode)
    ELSE IF f.n = lenItems
         THEN powerSetCallbackReturn(FALSE, 0)
         ELSE powerSetCallbackCall([f EXCEPT !.state = next], "left",
                  Push(f.path, [Index |-> f.n, Included |-> TRUE]), f.indices)

\* afterCb returning early only from two levels below stopNode on
afterCbStopBelowLevel(f, d, next) ==
    IF d.stop /\ f.n > d.stopNode + 1
    THEN powerSetCallbackReturn(TRUE, d.stopNode)
    ELSE IF f.n = lenItems
         THEN powerSetCallbackReturn(FALSE, 0)
         ELSE powerSetCallbackCall([f EXCEPT !.state = next], "left",
                  Push(f.path, [Index |-> f.n, Included |-> FALSE]), f.indices)

\* afterCb with cb's state dropped: the children get the state f was given
afterCbKeepsState(f, d, next) ==
    IF d.stop /\ f.n > d.stopNode
    THEN powerSetCallbackReturn(TRUE, d.stopNode)
    ELSE IF f.n = lenItems
         THEN powerSetCallbackReturn(FALSE, 0)
         ELSE powerSetCallbackCall(f, "left",
                  Push(f.path, [Index |-> f.n, Included |-> FALSE]), f.indices)

\* afterCb entering the excluded child while the frame's own cb invocation
\* still counts as running
afterCbChildDuringCb(f, d, next) ==
    IF d.stop /\ f.n > d.stopNode
    THEN powerSetCallbackReturn(TRUE, d.stopNode)
    ELSE IF f.n = lenItems
         THEN powerSetCallbackReturn(FALSE, 0)
         ELSE powerSetCallbackCall([f EXCEPT !.state = next], "cb",
                  Push(f.path, [Index |-> f.n, Included |-> FALSE]), f.indices)

\* afterCb without the return at a leaf: the walk goes on below depth k
afterCbNoLeafTest(f, d, next) ==
    IF d.stop /\ f.n > d.stopNode
    THEN powerSetCallbackReturn(TRUE, d.stopNode)
    ELSE powerSetCallbackCall([f EXCEPT !.state = next], "left",
             Push(f.path, [Index |-> f.n, Included |-> FALSE]), f.indices)

\* what powerSetCallback does with cb's answer d and state next in frame f:
\* return early when told to stop deeper than stopNode, return at a leaf,
\* else go down the left (excluded) branch
afterCb(f, d, next) ==
    IF d.stop /\ f.n > d.stopNode
    THEN powerSetCallbackReturn(TRUE, d.stopNode)
    ELSE IF f.n = lenItems
         THEN powerSetCallbackReturn(FALSE, 0)
         ELSE powerSetCallbackCall([f EXCEPT !.state = next], "left",
                  Push(f.path, [Index |-> f.n, Included |-> FALSE]), f.indices)

\* a panic (send on or close of a closed channel) or a stack overflow ends
\* the program
cbCrashed == cbPc \in {"panic", "overflow"}

\* does cb send its path on out in the invocation of frame f
Emits(f) == emitMode = "all" \/ (emitMode = "leaf" /\ f.n = lenItems)

\* cbEmit on a buffered out: the send returns with nobody having received
cbEmitBuffered ==
    /\ cbPc = "run"
    /\ cbStack # <<>>
    /\ Top(cbStack).pc = "cb"
    /\ Emits(Top(cbStack))
    /\ cbStack' = SetTop(cbStack, [Top(cbStack) EXCEPT !.pc = "sent"])
    /\ UNCHANGED <<helperVars, lenItems, pipeVars, emitVars, cbPc, cbRet, cbOutClosed,
                   stopsLeft, calls, answers>>

\* inside cb: out <- path.  out is unbuffered: the send is taken by the
\* consumer waiting in its range loop; a send on a closed channel panics
cbEmit ==
    /\ cbPc = "run"
    /\ cbStack # <<>>
    /\ Top(cbStack).pc = "cb"
    /\ Emits(Top(cbStack))
    /\ IF cbOutClosed
       THEN /\ cbPc' = "panic"
            /\ UNCHANGED <<cbStack, cbReceived>>
       ELSE /\ cbCons = "reading"
            /\ cbReceived' = Append(cbReceived, llToPath(Top(cbStack).path))
            /\ cbStack' = SetTop(cbStack, [Top(cbStack) EXCEPT !.pc = "sent"])
            /\ UNCHANGED cbPc
    /\ UNCHANGED <<helperVars, lenItems, pipeVars, emitMode, cbCons, cbRet, cbOutClosed,
                   stopsLeft, calls, answers>>

\* cb raises a fault: the panic starts to unwind the goroutine's stack
cbPanic ==
    /\ cbPc = "run"
    /\ cbStack # <<>>
    /\ Top(cbStack).pc \in {"cb", "sent"}
    /\ cbPc' = "panicking"
    /\ UNCHANGED <<helperVars, lenItems, pipeVars, emitVars, cbStack, cbRet, cbOutClosed,
                   stopsLeft, calls, answers>>

\* the unwinding without the root frame's close(out) being deferred
cbPanicUnwindNoDefer ==
    /\ cbPc = "panicking"
    /\ cbStack' = <<>>
    /\ cbPc' = "dying"
    /\ UNCHANGED <<helperVars, lenItems, pipeVars, emitVars, cbRet, cbOutClosed,
                   stopsLeft, calls, answers>>

\* the panic unwinds the frames, running what they deferred: the close(out)
\* of the frame with isRoot
cbPanicUnwind ==
    /\ cbPc = "panicking"
    /\ cbStack' = <<>>
    /\ cbOutClosed' = (cbOutClosed \/ \E i \in 1..Len(cbStack) : cbStack[i].n = 0)
    /\ cbPc' = "dying"
    /\ UNCHANGED <<helperVars, lenItems, pipeVars, emitVars, cbRet,
                   stopsLeft, calls, answers>>

\* nothing recovers the panic: the runtime ends the program
cbDie ==
    /\ cbPc = "dying"
    /\ cbPc' = "panic"
    /\ UNCHANGED <<helperVars, lenItems, pipeVars, emitVars, cbStack, cbRet, cbOutClosed,
                   stopsLeft, calls, answers>>

\* the consumer's range loop over Callback's out ends: out is closed
cbConsumerRangeEnd ==
    /\ cbCons = "reading"
    /\ cbOutClosed
    /\ ~cbCrashed
    /\ cbCons' = "drained"
    /\ UNCHANGED <<helperVars, lenItems, pipeVars, emitMode, cbReceived, cbStack, cbRet, cbPc,
                   cbOutClosed, stopsLeft, calls, answers>>

\* stop, stopNode, state = cb(path, isLeaf, state): cb returns
cbReturn ==
    /\ cbPc = "run"
    /\ cbStack # <<>>
    /\ Top(cbStack).pc = IF Emits(Top(cbStack)) THEN "sent" ELSE "cb"
    /\ \E d \in Directives(Top(cbStack).n) :
         LET f    == Top(cbStack)
             next == nextState(llToPath(f.path), f.state)
         IN  /\ d.stop => stopsLeft > 0
             /\ stopsLeft' = IF d.stop THEN stopsLeft - 1 ELSE stopsLeft
             /\ answers' = Append(answers, [stop |-> d.stop, stopNode |-> d.stopNode,
                                            state |-> next])
             /\ afterCb(f, d, next)
    /\ UNCHANGED <<helperVars, lenItems, pipeVars, emitVars, cbOutClosed, calls>>

\* afterLeft passing the stop on from the frame at stopNode too (n >= stopNode)
afterLeftStopAtLevel(f, r) ==
    IF r.stop /\ f.n >= r.stopNode
    THEN powerSetCallbackReturn(r.stop, r.stopNode)
    ELSE powerSetCallbackCall(f, "right",
             Push(Pop(f.path), [Index |-> f.n, Included |-> TRUE]),
             Push(f.indices, f.n))

\* afterLeft dropping the stop one level early (n > stopNode + 1)
afterLeftStopBelowLevel(f, r) ==
    IF r.stop /\ f.n > r.stopNode + 1
    THEN powerSetCallbackReturn(r.stop, r.stopNode)
    ELSE powerSetCallbackCall(f, "right",
             Push(Pop(f.path), [Index |-> f.n, Included |-> TRUE]),
             Push(f.indices, f.n))

\* afterLeft without the test of stop: the right branch is always walked
afterLeftIgnoreStop(f, r) ==
    powerSetCallbackCall(f, "right",
        Push(Pop(f.path), [Index |-> f.n, Included |-> TRUE]),
        Push(f.indices, f.n))

\* what a frame does when its left call returned r: path.Pop(); a stop from
\* deeper than stopNode is passed on, any other is dropped and the right
\* (included) branch is walked
afterLeft(f, r) ==
    IF r.stop /\ f.n > r.stopNode
    THEN powerSetCallbackReturn(r.stop, r.stopNode)
    ELSE powerSetCallbackCall(f, "right",
             Push(Pop(f.path), [Index |-> f.n, Included |-> TRUE]),
             Push(f.indices, f.n))

powerSetCallbackLeft ==
    /\ cbPc = "run"
    /\ cbRet.has
    /\ cbStack # <<>>
    /\ Top(cbStack).pc = "left"
    /\ afterLeft(Top(cbStack), cbRet)
    /\ UNCHANGED <<helperVars, lenItems, pipeVars, emitVars, cbOutClosed, stopsLeft, calls, answers>>

\* afterRight returning false, 0: a stop from the right branch is lost
afterRightDropsStop(f, r) == powerSetCallbackReturn(FALSE, 0)

\* the right call returned r: path.Pop(); indices.Pop(); return stop, stopNode
afterRight(f, r) == powerSetCallbackReturn(r.stop, r.stopNode)

powerSetCallbackRight ==
    /\ cbPc = "run"
    /\ cbRet.has
    /\ cbStack # <<>>
    /\ Top(cbStack).pc = "right"
    /\ afterRight(Top(cbStack), cbRet)
    /\ UNCHANGED <<helperVars, lenItems, pipeVars, emitVars, cbOutClosed, stopsLeft, calls, answers>>

\* a frame with isRoot returned: deferred close(out), then back to its caller
\* or, for the outermost frame, the end of the goroutine; closing a closed
\* channel panics
powerSetCallbackClose ==
    /\ cbPc = "close"
    /\ IF cbOutClosed
       THEN /\ cbPc' = "panic"
            /\ UNCHANGED cbOutClosed
       ELSE /\ cbOutClosed' = TRUE
            /\ cbPc' = IF cbStack = <<>> THEN "exited" ELSE "run"
    /\ UNCHANGED <<helperVars, lenItems, pipeVars, emitVars, cbStack, cbRet, stopsLeft, calls, answers>>

StageA(p) ==
    \/ powerSetLeafStop(p)
    \/ powerSetLeafSend(p)
    \/ powerSetNodeStop(p)
    \/ powerSetLeft(p)
    \/ powerSetRight(p)
    \/ powerSetPop(p)
    \/ powerSetWgDone(p)
    \/ powerSetClose(p)

StageB(p) ==
    \/ stageBConvert(p)
    \/ stageBSkip(p)
    \/ stageBSend(p)
    \/ stageBRangeEnd(p)
    \/ stageBWgDone(p)
    \/ stageBClose(p)

\* one pipeline, FixedSize(n) or VariableSize(n), the consumer free to call
\* stop() at any moment, and once more when that call has returned
Init == \E p \in Pipes : \E n \in 0..MaxN : StartPipelines({p}, n) /\ CallbackIdle /\ HelpersIdle

Next ==
    \E p \in Pipes :
        \/ StageA(p)
        \/ StageB(p)
        \/ consumerRangeEnd(p)
        \/ stopClose(p)
        \/ stopWait(p)
        \/ stopAgain(p)

Spec == Init /\ [][Next]_vars

\* FixedSize(n) and VariableSize(n) side by side, both drained; stop() is
\* never called, so stopIn stays open and no select takes its <-stopIn case
InitCross == \E n \in 0..MaxN : StartPipelines(Pipes, n) /\ CallbackIdle /\ HelpersIdle

NextCross ==
    \E p \in Pipes :
        \/ powerSetLeafSend(p)
        \/ powerSetLeft(p)
        \/ powerSetRight(p)
        \/ powerSetPop(p)
        \/ powerSetWgDone(p)
        \/ powerSetClose(p)
        \/ stageBConvert(p)
        \/ stageBSend(p)
        \/ stageBRangeEnd(p)
        \/ stageBWgDone(p)
        \/ stageBClose(p)
        \/ consumerRangeEnd(p)

SpecCross == InitCross /\ [][NextCross]_vars

\* Callback(n, cb, state) for every decision function answering stop=true at
\* most MaxStops times
InitCallback ==
    \E n \in 0..MaxN : StartPipelines({}, n) /\ Callback(n, "none", MaxStops) /\ HelpersIdle

NextCallback ==
    \/ cbEnter
    \/ cbReturn
    \/ powerSetCallbackLeft
    \/ powerSetCallbackRight
    \/ powerSetCallbackClose

SpecCallback == InitCallback /\ [][NextCallback]_vars

\* Callback(n, cb, state) for the decision functions that send their path on
\* out, the caller ranging over out
InitEmit ==
    \E n \in 0..MaxN : \E mode \in {"all", "leaf"} :
        StartPipelines({}, n) /\ Callback(n, mode, MaxStops) /\ HelpersIdle

NextEmit ==
    \/ cbEnter
    \/ cbEmit
    \/ cbReturn
    \/ powerSetCallbackLeft
    \/ powerSetCallbackRight
    \/ powerSetCallbackClose
    \/ cbConsumerRangeEnd

SpecEmit == InitEmit /\ [][NextEmit]_vars

\* Callback(n, cb, state) with a cb that sends every solution (leaf) on out,
\* as the README's example, and returns, and a caller that keeps ranging
\* over out, under the Go scheduler: Callback's goroutine, whenever it can
\* take a step (a send on out included, the caller being there to receive),
\* is given one in the end
InitLeaf ==
    \E n \in 0..MaxN :
        StartPipelines({}, n) /\ Callback(n, "leaf", MaxStops) /\ HelpersIdle

CallbackGoroutine ==
    \/ cbEnter
    \/ cbEmit
    \/ cbReturn
    \/ powerSetCallbackLeft
    \/ powerSetCallbackRight
    \/ powerSetCallbackClose

SpecLeafFair == InitLeaf /\ [][NextEmit]_vars /\ WF_vars(CallbackGoroutine)

\* one pipeline whose consumer calls stop() at most once, under the Go
\* scheduler: a goroutine that can take a step is given one in the end, be it
\* stage A, stage B or the caller inside stop()
NextOnce ==
    \E p \in Pipes :
        \/ StageA(p)
        \/ StageB(p)
        \/ consumerRangeEnd(p)
        \/ stopClose(p)
        \/ stopWait(p)

Fairness ==
    \A p \in Pipes :
        /\ WF_vars(StageA(p))
        /\ WF_vars(StageB(p))
        /\ WF_vars(stopWait(p))

SpecFair == Init /\ [][NextOnce]_vars /\ Fairness

\* FixedSize(n) and VariableSize(n) side by side, stop() never called, under
\* the same scheduler
SpecDrain == InitCross /\ [][NextCross]_vars /\ Fairness

\* FixedSize, VariableSize and Callback called with a negative lenItems.  No
\* frame has n == k, so the leaf code of powerSet, and with it the receiving
\* half of stage B and of the consumer, is never reached; cb may answer
\* stop=true once more than MaxStops, a right branch of powerSetCallback
\* returning only by a second stop
NegativeLens == {0 - 1, 0 - 2}

InitNegative ==
    \E n \in NegativeLens :
        \/ \E p \in Pipes : StartPipelines({p}, n) /\ CallbackIdle /\ HelpersIdle
        \/ StartPipelines({}, n) /\ Callback(n, "none", MaxStops + 1)
           /\ HelpersIdle

NextNegative ==
    \/ \E p \in Pipes :
          \/ powerSetNodeStop(p)
          \/ powerSetLeft(p)
          \/ powerSetRight(p)
          \/ powerSetWgDone(p)
          \/ powerSetClose(p)
          \/ stageBRangeEnd(p)
          \/ stageBWgDone(p)
          \/ stageBClose(p)
          \/ stopClose(p)
          \/ stopWait(p)
          \/ stopAgain(p)
    \/ NextCallback

SpecNegative == InitNegative /\ [][NextNegative]_vars

\* one pipeline whose consumer may give up reading without calling stop()
NextQuit ==
    \E p \in Pipes :
        \/ StageA(p)
        \/ StageB(p)
        \/ consumerRangeEnd(p)
        \/ consumerQuit(p)
        \/ stopClose(p)
        \/ stopWait(p)

SpecQuit == Init /\ [][NextQuit]_vars

\* Callback(n, cb, state) with a decision function that may panic
NextPanic ==
    \/ NextEmit
    \/ cbPanic
    \/ cbPanicUnwind
    \/ cbDie

SpecPanic == InitEmit /\ [][NextPanic]_vars

\* any one of the three entry points: FixedSize(n), VariableSize(n), or
\* Callback(n, cb, state) with a decision function sending on out at every node
InitAny ==
    \E n \in 0..MaxN :
        \/ \E p \in Pipes : StartPipelines({p}, n) /\ CallbackIdle /\ HelpersIdle
        \/ StartPipelines({}, n) /\ Callback(n, "all", MaxStops) /\ HelpersIdle

NextAny ==
    \/ NextOnce
    \/ NextEmit

SpecAny == InitAny /\ [][NextAny]_vars

\* ValidatePath called with any two Paths of up to MaxLen nodes
InitValidate ==
    \E path \in Paths : \E check \in Paths :
        StartPipelines({}, 0) /\ CallbackIdle /\ ValidatePathCalled(path, check) /\ ConversionIdle

NextValidate == validatePathReturn

SpecValidate == InitValidate /\ [][NextValidate]_vars

\* llToIndicesFixed(n, list) or llToIndicesVariable(list) called on any list
\* of up to MaxN pushes of indices below n
InitConvert ==
    \E n \in 0..MaxN : \E fn \in {"fixed", "variable"} : \E pushes \in PushSeqs(n) :
        StartPipelines({}, n) /\ CallbackIdle /\ ValidatePathIdle
            /\ ConversionCalled(fn, pushes)

NextConvert ==
    \/ llToIndicesFixedReturn
    \/ llToIndicesVariableReturn

SpecConvert == InitConvert /\ [][NextConvert]_vars

\* ================================================================== claims
\* ----------------------------------------------------- reference notions
RECURSIVE Pow2(_)
Pow2(e) == IF e = 0 THEN 1 ELSE 2 * Pow2(e - 1)

\* item i (0-based) is included in the k-th subset (0-based) of n items when
\* bit i of k is set, item 0 being the most significant of the n bits
Bit(n, k, i) == (k \div Pow2(n - 1 - i)) % 2 = 1

\* the k-th subset of n items as a boolean vector
BinVec(n, k) == [i \in 1..n |-> Bit(n, k, i - 1)]

\* the included items of the k-th subset from item i downwards
RECURSIVE DescFrom(_, _, _)
DescFrom(n, k, i) ==
    IF i < 0 THEN <<>>
    ELSE (IF Bit(n, k, i) THEN <<i>> ELSE <<>>) \o DescFrom(n, k, i - 1)

\* an index sequence as a length-n boolean vector
ToBoolVec(n, seq) == [i \in 1..n |-> \E j \in 1..Len(seq) : seq[j] = i - 1]

Min(a, b) == IF a < b THEN a ELSE b

Max(a, b) == IF a > b THEN a ELSE b

\* C1: a consumer draining FixedSize(n) receives exactly 2^n boolean vectors
\* of length n, pairwise distinct, the k-th being the n-bit binary
\* representation of k with item 0 as most significant bit (excluded before
\* included); when its range loop ends it has received all 2^n of them.
FixedSizeDrainsInOrder ==
    LET r == received["fixed"]
        n == lenItems
    IN  /\ Len(r) <= Pow2(n)
        /\ \A k \in 1..Len(r) : Len(r[k]) = n /\ r[k] = BinVec(n, k - 1)
        /\ \A j, k \in 1..Len(r) : j # k => r[j] # r[k]
        /\ cPc["fixed"] = "drained" => Len(r) = Pow2(n) /\ outClosed["fixed"]
        /\ (outClosed["fixed"] /\ ~stopInClosed["fixed"]) => Len(r) = Pow2(n)

FixedSizeDrained ==
    /\ lenItems = MaxN
    /\ cPc["fixed"] = "drained"
    /\ stopPc["fixed"] = "idle"
    /\ Len(received["fixed"]) = Pow2(MaxN)
    /\ received["fixed"][Pow2(MaxN)] = [i \in 1..MaxN |-> TRUE]

\* C2: a consumer draining VariableSize(n) receives exactly 2^n index
\* sequences, pairwise distinct as sets, in the same tree order, each listing
\* its included indices in strictly descending order.
VariableSizeDrainsInOrder ==
    LET r == received["variable"]
        n == lenItems
    IN  /\ Len(r) <= Pow2(n)
        /\ \A k \in 1..Len(r) :
             /\ r[k] = DescFrom(n, k - 1, n - 1)
             /\ \A i \in 1..(Len(r[k]) - 1) : r[k][i] > r[k][i + 1]
        /\ \A j, k \in 1..Len(r) :
             j # k => {r[j][i] : i \in 1..Len(r[j])} # {r[k][i] : i \in 1..Len(r[k])}
        /\ cPc["variable"] = "drained" => Len(r) = Pow2(n) /\ outClosed["variable"]
        /\ (outClosed["variable"] /\ ~stopInClosed["variable"]) => Len(r) = Pow2(n)

VariableSizeDrained ==
    /\ lenItems = 3
    /\ cPc["variable"] = "drained"
    /\ stopPc["variable"] = "idle"
    /\ received["variable"] =
         <<<<>>, <<2>>, <<1>>, <<2, 1>>, <<0>>, <<2, 0>>, <<1, 0>>, <<2, 1, 0>>>>

\* C3: the k-th result of VariableSize(n), turned into a length-n boolean
\* vector, is the k-th result of FixedSize(n); drained, both have as many.
CrossConsistent ==
    LET f == received["fixed"]
        v == received["variable"]
    IN  /\ \A k \in 1..Min(Len(f), Len(v)) : ToBoolVec(lenItems, v[k]) = f[k]
        /\ (cPc["fixed"] = "drained" /\ cPc["variable"] = "drained") => Len(f) = Len(v)

BothDrained ==
    /\ lenItems = MaxN
    /\ cPc["fixed"] = "drained"
    /\ cPc["variable"] = "drained"
    /\ Len(received["fixed"]) = Pow2(MaxN)
    /\ Len(received["variable"]) = Pow2(MaxN)

\* --------------------------------------- reference notions for Callback
PathNode(i, inc) == [Index |-> i, Included |-> inc]

\* the nodes of the subtree below and including path, in pre-order with the
\* excluded child's subtree before the included child's
RECURSIVE PreOrderFrom(_, _)
PreOrderFrom(path, n) ==
    <<path>> \o
    (IF Len(path) = n THEN <<>>
     ELSE PreOrderFrom(<<PathNode(Len(path), FALSE)>> \o path, n) \o
          PreOrderFrom(<<PathNode(Len(path), TRUE)>> \o path, n))

PreOrder(n) == PreOrderFrom(<<>>, n)

\* the ancestor at depth a of the node at path (latest decision first)
Ancestor(path, a) == SubSeq(path, Len(path) - a + 1, Len(path))

\* path lies in the subtree rooted at root (root itself counts)
Inside(path, root) == Len(path) >= Len(root) /\ Ancestor(path, Len(root)) = root

\* path is a proper descendant of root
Below(path, root) == Len(path) > Len(root) /\ Inside(path, root)

\* the included sibling of an excluded child
Sibling(path) == <<PathNode(path[1].Index, TRUE)>> \o Tail(path)

\* the node after the subtree of path in pre-order, as a sequence of at most
\* one path: the included sibling of the nearest excluded node on the way up
RECURSIVE SkipSucc(_)
SkipSucc(path) ==
    IF path = <<>> THEN <<>>
    ELSE IF ~path[1].Included THEN <<Sibling(path)>>
    ELSE SkipSucc(Tail(path))

CallPaths == [i \in 1..Len(calls) |-> calls[i].path]

NeverStopped == \A i \in 1..Len(answers) : ~answers[i].stop

\* the n = 0 frame of powerSetCallback has returned
Finished == cbPc \in {"close", "exited"}

\* C4: with a decision function that never stops, cb is invoked once per node
\* of the depth-n tree, 2^(n+1)-1 times, in pre-order (node, excluded
\* subtree, included subtree), the root first.
CallbackVisitsAllInPreOrder ==
    NeverStopped =>
        /\ Len(calls) <= Pow2(lenItems + 1) - 1
        /\ CallPaths = SubSeq(PreOrder(lenItems), 1, Len(calls))
        /\ Finished => Len(calls) = Pow2(lenItems + 1) - 1

CallbackVisitedAll ==
    /\ lenItems = 3
    /\ cbPc = "exited"
    /\ NeverStopped
    /\ Len(answers) = 15
    /\ calls[1].path = <<>>
    /\ calls[15].path = <<PathNode(2, TRUE), PathNode(1, TRUE), PathNode(0, TRUE)>>

\* C5: after stop=true with resumeLevel d (0 <= d < p) at a node v of depth
\* p, nothing is visited any more in the subtree of v's ancestor at depth
\* d+1, and when that ancestor is an excluded child the next node visited is
\* its included sibling; for n=3, the only stop being at {1:+,0:-} with
\* resumeLevel 0, exactly {2:-,1:+,0:-} and {2:+,1:+,0:-} are missing (13
\* calls).
PartialTerminate ==
    /\ \A i \in 1..Len(answers) :
         LET v == calls[i].path
             d == answers[i].stopNode
         IN  (answers[i].stop /\ 0 <= d /\ d < Len(v)) =>
               LET anc == Ancestor(v, d + 1)
               IN  /\ \A j \in (i + 1)..Len(calls) : ~Inside(calls[j].path, anc)
                   /\ ~anc[1].Included =>
                        /\ Len(calls) > i => calls[i + 1].path = Sibling(anc)
                        /\ Finished => Len(calls) > i
    /\ LET v == <<PathNode(1, TRUE), PathNode(0, FALSE)>>
           Kept(x) == ~Below(x, v)
       IN  ( /\ lenItems = 3
             /\ Finished
             /\ \A i \in 1..Len(answers) :
                  answers[i].stop <=> (calls[i].path = v /\ answers[i].stopNode = 0) )
           => /\ CallPaths = SelectSeq(PreOrder(3), Kept)
              /\ Len(calls) = 13

PartiallyTerminated ==
    /\ lenItems = 3
    /\ cbPc = "exited"
    /\ Len(calls) = 13
    /\ calls[6].path = <<PathNode(1, TRUE), PathNode(0, FALSE)>>
    /\ answers[6].stop
    /\ answers[6].stopNode = 0
    /\ calls[7].path = <<PathNode(0, TRUE)>>

\* C6: after stop=true with resumeLevel -1 at a node of any depth no cb
\* invocation follows, and the goroutine runs on to close the stream.
TerminateBeforeRoot ==
    \A i \in 1..Len(answers) :
        (answers[i].stop /\ answers[i].stopNode = 0 - 1) =>
            /\ Len(calls) = i
            /\ cbPc = "exited" => cbOutClosed
            /\ cbOutClosed \/ ENABLED NextCallback

TerminatedBeforeRoot ==
    /\ lenItems = 3
    /\ cbPc = "exited"
    /\ cbOutClosed
    /\ Len(calls) = 4
    /\ answers[4].stop
    /\ answers[4].stopNode = 0 - 1

NoRevisitNoAbandoned ==
    LET last == Len(calls)
    IN  /\ \A i \in 1..(last - 1) : calls[i].path # calls[last].path
        /\ \A i \in 1..Min(Len(answers), last - 1) :
             LET v == calls[i].path
                 l == answers[i].stopNode
             IN  (answers[i].stop /\ l < Len(v)) =>
                     ~Inside(calls[last].path, Ancestor(v, Max(l, 0 - 1) + 1))

AbandonedFromLeaf ==
    /\ lenItems = MaxN
    /\ cbPc = "exited"
    /\ \E i \in 1..Len(answers) :
         /\ Len(calls[i].path) = lenItems
         /\ answers[i].stop
         /\ answers[i].stopNode = 1
         /\ Len(calls) > i + 1

\* C9: after (stop=true, resumeLevel=depth-1) at a node v the next node
\* visited is the one after v's subtree in pre-order (the included sibling
\* of v if v is an excluded child, else that of the nearest excluded
\* ancestor), the traversal ends if there is none, and with no other stop in
\* the run exactly v's descendants are left out.
OneStepBacktrack ==
    \A i \in 1..Len(answers) :
        LET v == calls[i].path
            s == SkipSucc(v)
            Kept(x) == ~Below(x, v)
        IN  (answers[i].stop /\ answers[i].stopNode = Len(v) - 1) =>
              /\ Len(calls) > i => (s # <<>> /\ calls[i + 1].path = s[1])
              /\ (Finished /\ s # <<>>) => Len(calls) > i
              /\ (Finished /\ \A j \in 1..Len(answers) : j # i => ~answers[j].stop)
                   => CallPaths = SelectSeq(PreOrder(lenItems), Kept)

BacktrackedFromIncluded ==
    /\ lenItems = 3
    /\ cbPc = "exited"
    /\ \E i \in 1..Len(answers) :
         /\ calls[i].path = <<PathNode(1, TRUE), PathNode(0, FALSE)>>
         /\ answers[i].stop
         /\ answers[i].stopNode = 1
         /\ Len(calls) > i
         /\ calls[i + 1].path = <<PathNode(0, TRUE)>>

\* C10: the root's cb gets initialState; every other cb invocation gets the
\* state its parent's cb invocation returned, so both children of a node get
\* the same value whatever happened in between.  Stated of the latest
\* invocation against all earlier ones, in every reachable state.
StatePropagation ==
    LET last == Len(calls)
    IN  last > 0 =>
          LET v == calls[last].path
          IN  /\ IF v = <<>>
                 THEN calls[last].state = initialState
                 ELSE \E j \in 1..(last - 1) :
                         /\ calls[j].path = Tail(v)
                         /\ j <= Len(answers)
                         /\ calls[last].state = answers[j].state
              /\ \A i \in 1..(last - 1) :
                   (v # <<>> /\ calls[i].path # <<>> /\ Tail(calls[i].path) = Tail(v))
                   => calls[i].state = calls[last].state

StatePropagated ==
    /\ lenItems = MaxN
    /\ cbPc = "exited"
    /\ \E i, j \in 1..Len(calls) :
         /\ i < j
         /\ calls[i].path = <<PathNode(1, FALSE), PathNode(0, TRUE)>>
         /\ calls[j].path = <<PathNode(1, TRUE), PathNode(0, TRUE)>>
         /\ calls[i].state = <<PathNode(0, TRUE)>>
         /\ calls[j].state = <<PathNode(0, TRUE)>>

\* C11: at every cb invocation the path is as long as the node is deep, its
\* i-th entry (from 0) is the decision on item depth-1-i, so the latest
\* decision comes first and the indices fall by one down to 0 (the root has
\* the empty path), and isLeaf is true exactly when the path is n long.
PathInvariant ==
    /\ \A c \in 1..Len(calls) :
         LET path == calls[c].path
         IN  /\ \A i \in 1..Len(path) : path[i].Index = Len(path) - i
             /\ calls[c].isLeaf <=> (Len(path) = lenItems)
    /\ (cbStack # <<>> /\ Top(cbStack).pc = "cb") =>
         Len(calls[Len(calls)].path) = Top(cbStack).n

PathAtDeepLeaf ==
    /\ lenItems = 3
    /\ cbStack # <<>>
    /\ Top(cbStack).pc = "cb"
    /\ Top(cbStack).n = 3
    /\ calls[Len(calls)].isLeaf
    /\ calls[Len(calls)].path =
         <<PathNode(2, TRUE), PathNode(1, FALSE), PathNode(0, TRUE)>>

\* C12: the stream of Callback is closed exactly once (no second close, which
\* would panic, and the goroutine does not end without one), and only when the
\* root frame has returned, no frame being left; once it is closed no cb
\* invocation starts, nothing is sent on it, and it stays closed.
StreamClosedOnceAtEnd ==
    /\ [](cbOutClosed => cbStack = <<>> /\ ~cbCrashed)
    /\ [](cbPc = "exited" => cbOutClosed)
    /\ [][cbOutClosed =>
            calls' = calls /\ cbReceived' = cbReceived /\ cbOutClosed']_vars

StreamClosedAfterStop ==
    /\ lenItems = MaxN
    /\ emitMode = "all"
    /\ cbOutClosed
    /\ cbCons = "drained"
    /\ Len(calls) > 1
    /\ Len(calls) < Len(PreOrder(MaxN))
    /\ cbReceived = CallPaths
    /\ answers[Len(answers)].stop
    /\ answers[Len(answers)].stopNode = 0 - 1

\* C13: once the consumer, having received k < 2^n results, has left its loop
\* and called stop(), under fair scheduling stop() returns in the end and the
\* result stream gets closed, whatever the two stages were doing at the call
\* (stage A waiting to hand a leaf over, stage B holding a converted result
\* nobody takes); the run never gets stuck before that.
CancelReturnsAndCloses ==
    \A p \in Pipes :
        (stopPc[p] = "wait" /\ Len(received[p]) < Pow2(lenItems))
            ~> (stopPc[p] = "returned" /\ outClosed[p])

\* stop() has returned and out is closed although stage B was given a result
\* the consumer never took
CancelledWithResultInFlight ==
    \E p \in Pipes :
        /\ lenItems = MaxN
        /\ stopPc[p] = "returned"
        /\ outClosed[p]
        /\ received[p] # <<>>
        /\ Len(received[p]) < Pow2(lenItems)
        /\ bOut[p] # received[p][Len(received[p])]

\* C14: from the moment stop() has returned, stage A has ended its walk (no
\* frame left, nothing more handed over) and stage B has left its receive
\* loop, and both have called wg.Done().
CancelWaitsForStages ==
    \A p \in Pipes :
        stopPc[p] = "returned" =>
            /\ aStack[p] = <<>>
            /\ aPc[p] \in {"close", "exited"}
            /\ bPc[p] \in {"close", "exited"}
            /\ wg[p] = 0

CancelReturnedMidway ==
    \E p \in Pipes :
        /\ lenItems = MaxN
        /\ stopPc[p] = "returned"
        /\ received[p] # <<>>
        /\ Len(received[p]) < Pow2(lenItems)
        /\ aPc[p] = "exited"
        /\ bPc[p] \in {"close", "exited"}

\* C15: when stop() has returned the result stream is closed and neither
\* stage has a step left to take.
CancelLeavesNothingRunning ==
    \A p \in Pipes :
        stopPc[p] = "returned" =>
            /\ outClosed[p]
            /\ aPc[p] = "exited"
            /\ bPc[p] = "exited"

\* --------------------------------- reference notion for the pipelines
\* the k-th result (from 1) of the full enumeration of pipeline p
FullEnumeration(p, n, k) ==
    IF p = "fixed" THEN BinVec(n, k - 1) ELSE DescFrom(n, k - 1, n - 1)

\* C16: the results a consumer had received when it called stop() are the
\* first ones of the full enumeration, in its order, none skipped, doubled
\* or out of place, and none is added to them after the call.
PrefixUnderEarlyStop ==
    \A p \in Pipes :
        stopPc[p] # "idle" =>
            /\ Len(received[p]) <= Pow2(lenItems)
            /\ \A k \in 1..Len(received[p]) :
                 received[p][k] = FullEnumeration(p, lenItems, k)

StoppedAfterThree ==
    /\ lenItems = 3
    /\ stopPc["fixed"] = "returned"
    /\ received["fixed"] = <<<<FALSE, FALSE, FALSE>>, <<FALSE, FALSE, TRUE>>,
                             <<FALSE, TRUE, FALSE>>>>

\* C17: a second call of stop(), made after the first has returned, raises no
\* fault.
SecondCancelIsNoOp == \A p \in Pipes : stopPc[p] # "panic"

\* C18: when the consumer has drained the stream (all 2^n results, out
\* closed), both stages are over and the counter is 0, so that a first stop()
\* closes an open channel and its wg.Wait() returns at once.
CancelAfterExhaustion ==
    \A p \in Pipes :
        cPc[p] = "drained" =>
            /\ Len(received[p]) = Pow2(lenItems)
            /\ aPc[p] = "exited"
            /\ bPc[p] = "exited"
            /\ wg[p] = 0
            /\ stopPc[p] = "idle" => ~stopInClosed[p]
            /\ stopPc[p] = "wait" => ENABLED stopWait(p)

CancelledAfterExhaustion ==
    \E p \in Pipes :
        /\ lenItems = MaxN
        /\ cPc[p] = "drained"
        /\ stopPc[p] = "returned"
        /\ Len(received[p]) = Pow2(MaxN)

\* C19: called with a negative lenItems, FixedSize, VariableSize and Callback
\* fail at once: cb is invoked at no node, no result is produced, and the
\* walk enters no frame besides the one it was started with, let alone runs
\* on until the stack is used up.
NegativeLenFailsFast ==
    lenItems < 0 =>
        /\ calls = <<>>
        /\ Len(cbStack) <= 1
        /\ ~cbCrashed
        /\ \A p \in Pipes :
             /\ received[p] = <<>>
             /\ Len(aStack[p]) <= 1
             /\ aPc[p] # "overflow"

\* C20: once cb has answered stop=true with a level above the depth of its
\* node or below -1, the run has ended in a fault: the engine neither goes on
\* as if there had been no stop nor unwinds as for a level in range.
OutOfRangeLevelIsFault ==
    \A i \in 1..Len(answers) :
        (/\ answers[i].stop
         /\ \/ answers[i].stopNode > Len(calls[i].path)
            \/ answers[i].stopNode < 0 - 1)
            => cbCrashed

\* C21: with n = 0 Callback invokes cb once, with the empty path and isLeaf
\* true, and has done so when it closes the stream; FixedSize(0) and
\* VariableSize(0) deliver one result, the empty combination, and a consumer
\* that reads until the close has received just that one.
EdgeCaseZero ==
    lenItems = 0 =>
        /\ Len(calls) <= 1
        /\ \A i \in 1..Len(calls) : calls[i].path = <<>> /\ calls[i].isLeaf
        /\ cbOutClosed => Len(calls) = 1 /\ Len(answers) = 1
        /\ \A p \in Pipes :
             /\ Len(received[p]) <= 1
             /\ \A k \in 1..Len(received[p]) : received[p][k] = <<>>
             /\ cPc[p] = "drained" => received[p] = <<<<>>>> /\ outClosed[p]
             /\ (outClosed[p] /\ ~stopInClosed[p]) => handed[p] = 1

CallbackZeroClosed ==
    /\ lenItems = 0
    /\ cbOutClosed
    /\ cbCons = "drained"
    /\ calls = <<[path |-> <<>>, isLeaf |-> TRUE, state |-> initialState]>>
    /\ cbReceived = <<<<>>>>

\* C22: when cb has panicked in the middle of a traversal, the unwinding has
\* run the root frame's close(out): from then on the stream is closed, and a
\* consumer still in its range loop can leave it.
PanicClosesStream ==
    cbPc \in {"dying", "panic"} =>
        /\ cbOutClosed
        /\ cbStack = <<>>
        /\ (cbPc = "dying" /\ cbCons = "reading") => ENABLED cbConsumerRangeEnd

PanickedMidTraversal ==
    /\ lenItems = MaxN
    /\ cbPc = "dying"
    /\ cbCons = "drained"
    /\ Len(calls) > 1
    /\ Len(calls) < Len(PreOrder(MaxN))
    /\ Len(answers) = Len(calls) - 1

\* C23: ValidatePath(a, b) answers true exactly when a and b are equally long
\* and agree at every position in Index and in Included; so it answers true
\* for a path and itself, two empty paths included, and answers the same with
\* its arguments swapped.
ValidatePathIsEquality ==
    vpPc = "returned" =>
        /\ vpResult <=>
             /\ Len(vpPath) = Len(vpCheck)
             /\ \A i \in 1..Len(vpPath) :
                  /\ vpPath[i].Index = vpCheck[i].Index
                  /\ vpPath[i].Included = vpCheck[i].Included
        /\ vpPath = vpCheck => vpResult
        /\ (vpPath = <<>> /\ vpCheck = <<>>) => vpResult
        /\ vpResult = ValidatePath(vpCheck, vpPath)

ValidatedLongPath ==
    /\ vpPc = "returned"
    /\ vpResult
    /\ Len(vpPath) = MaxLen
    /\ vpPath[1].Included
    /\ ~vpPath[MaxLen].Included

\* C24: once close(stopIn) has run, stage A hands at most one more leaf to
\* stage B before it stops.
CancelLatencyOneHandoff == \A p \in Pipes : lateHandoffs[p] <= 1

\* C25: as long as stop() is not called, stage A has handed to stage B at
\* most one leaf more than the consumer has received, and it has exactly when
\* stage B holds a result it has not yet delivered.
Backpressure ==
    \A p \in Pipes :
        ~stopInClosed[p] =>
            /\ handed[p] - Len(received[p]) \in {0, 1}
            /\ handed[p] - Len(received[p]) = 1 <=> bPc[p] \in {"convert", "select"}

ProducerHeldBack ==
    \E p \in Pipes :
        /\ lenItems = MaxN
        /\ ~stopInClosed[p]
        /\ handed[p] = 3
        /\ Len(received[p]) = 2
        /\ bPc[p] = "select"
        /\ aPc[p] = "run"
        /\ aStack[p] # <<>>
        /\ Top(aStack[p]).pc = "start"
        /\ Top(aStack[p]).n = lenItems

\* the paths of the cb invocations that send on out, in the order of the
\* invocations
EmittingCalls ==
    LET e == SelectSeq(calls, LAMBDA c : emitMode = "all" \/ (emitMode = "leaf" /\ c.isLeaf))
    IN  [i \in 1..Len(e) |-> e[i].path]

\* C26: the consumer has received, in the order of the invocations, the
\* values of all emitting cb invocations so far, but for the latest when that
\* one is still in progress and has not sent yet: no invocation starts while
\* an earlier one's value is not received.
EmittedInOrderUnbuffered ==
    LET e == EmittingCalls
    IN  /\ Len(cbReceived) <= Len(e)
        /\ Len(e) <= Len(cbReceived) + 1
        /\ cbReceived = SubSeq(e, 1, Len(cbReceived))
        /\ Len(e) = Len(cbReceived) + 1 =>
              /\ cbStack # <<>>
              /\ Top(cbStack).pc = "cb"
              /\ llToPath(Top(cbStack).path) = e[Len(e)]

EmittedAllInOrder ==
    /\ lenItems = MaxN
    /\ emitMode = "all"
    /\ NeverStopped
    /\ cbCons = "drained"
    /\ cbReceived = PreOrder(MaxN)

InProgress(f) == f.pc \in {"cb", "sent"}

\* C28: at most one cb invocation is in progress: all invocations but
\* possibly the latest have returned, the one in progress belongs to the
\* innermost frame, every frame below has its own behind it, and the latest
\* invocation, if not the root's, started after its parent's had returned the
\* state it was given.
OneInvocationAtATime ==
    LET L == Len(calls)
    IN  /\ L - Len(answers) \in {0, 1}
        /\ Cardinality({i \in 1..Len(cbStack) : InProgress(cbStack[i])}) = L - Len(answers)
        /\ \A i \in 1..(Len(cbStack) - 1) : cbStack[i].pc \in {"left", "right"}
        /\ L > 1 =>
              \E j \in 1..(L - 1) :
                  /\ j <= Len(answers)
                  /\ calls[j].path = Tail(calls[L].path)
                  /\ answers[j].state = calls[L].state

ChildInvocationInProgress ==
    /\ lenItems = MaxN
    /\ Len(cbStack) = 3
    /\ Top(cbStack).pc = "sent"
    /\ Len(calls) = Len(answers) + 1
    /\ calls[Len(calls)].path = <<PathNode(1, TRUE), PathNode(0, FALSE)>>

\* the place (from 0) of the node at path in the full pre-order of the
\* depth-n tree: a step to an excluded child moves on by one, a step to an
\* included child past the excluded sibling's whole subtree as well
RECURSIVE Rank(_, _)
Rank(path, n) ==
    IF path = <<>> THEN 0
    ELSE (IF Head(path).Included THEN Pow2(n - Head(path).Index) ELSE 1)
         + Rank(Tail(path), n)

\* C29: whatever cb answers, the nodes visited so far are nodes of the
\* depth-n tree met in the order of its full excluded-before-included
\* pre-order: the root is the first, and every later one comes after its
\* predecessor in that order.
VisitedIsSubsequence ==
    LET L == Len(calls)
    IN  /\ L >= 1 => calls[1].path = <<>>
        /\ L >= 1 => PreOrder(lenItems)[Rank(calls[L].path, lenItems) + 1] = calls[L].path
        /\ L > 1 => Rank(calls[L - 1].path, lenItems) < Rank(calls[L].path, lenItems)

\* TestCallbackPartialTerminate: the stop at {1 true}{0 false} with level 0
\* leaves out two nodes, the walk going on at {0 true}
VisitedWithGap ==
    /\ lenItems = 3
    /\ Finished
    /\ Len(calls) = 13
    /\ calls[6].path = <<PathNode(1, TRUE), PathNode(0, FALSE)>>
    /\ calls[7].path = <<PathNode(0, TRUE)>>

\* C30: with stop called at most once, at any point of the run, no close
\* of a closed channel and no send on a closed channel happens: neither
\* stage nor stop faults, the handoff channel is closed exactly when stage A
\* has exited, the result stream exactly when stage B has exited, and the
\* stop channel exactly when stop has been called.
ChannelsClosedOnce ==
    \A p \in Pipes :
        p \in active =>
            /\ aPc[p] # "panic"
            /\ bPc[p] # "panic"
            /\ stopPc[p] # "panic"
            /\ indicesOutClosed[p] <=> aPc[p] = "exited"
            /\ outClosed[p] <=> bPc[p] = "exited"
            /\ stopInClosed[p] <=> stopPc[p] # "idle"

\* stop raced with a delivery (a result handed over after the stop channel
\* was closed) and both stages have closed their channels and exited
ClosedAfterRacingCancel ==
    \E p \in Pipes :
        /\ p \in active
        /\ lenItems >= 2
        /\ lateHandoffs[p] >= 1
        /\ stopPc[p] = "returned"
        /\ indicesOutClosed[p]
        /\ outClosed[p]

\* the indices a result of pipeline p stands for
AsSet(p, r) ==
    IF p = "fixed" THEN {i \in 0..(Len(r) - 1) : r[i + 1]}
    ELSE {r[i] : i \in 1..Len(r)}

ExhaustionTerminates ==
    \A p \in Pipes :
        (p \in active /\ Len(received[p]) = Pow2(lenItems))
            ~> (/\ aPc[p] = "exited"
                /\ indicesOutClosed[p]
                /\ bPc[p] = "exited"
                /\ outClosed[p]
                /\ wg[p] = 0
                /\ stopPc[p] = "idle")

\* all 2^n results of both pipelines received, both stages of both gone
BothStagesGoneAfterDrain ==
    /\ lenItems = MaxN
    /\ \A p \in Pipes :
          /\ Len(received[p]) = Pow2(MaxN)
          /\ aPc[p] = "exited"
          /\ bPc[p] = "exited"
          /\ outClosed[p]
          /\ stopPc[p] = "idle"
          /\ cPc[p] = "drained"

\* C33: with a cb that returns and a consumer that keeps receiving, under
\* fair scheduling every Callback run ends: cb is never invoked more than
\* 2^(n+1)-1 times, and in the end the root frame has returned, no frame is
\* left and the result stream is closed.
CallbackTerminates ==
    /\ [](Len(calls) <= Pow2(lenItems + 1) - 1)
    /\ <>(cbPc = "exited" /\ cbStack = <<>> /\ cbOutClosed)

\* a run of the deepest tree with a resume that has ended: fewer than
\* 2^(n+1)-1 invocations, some leaves received, the stream closed
TerminatedAfterResume ==
    /\ lenItems = MaxN
    /\ emitMode = "leaf"
    /\ cbPc = "exited"
    /\ cbOutClosed
    /\ cbCons = "drained"
    /\ ~NeverStopped
    /\ Len(calls) > Pow2(MaxN)
    /\ Len(calls) < Pow2(MaxN + 1) - 1
    /\ Len(cbReceived) >= 2

\* C34: stage B is out of its receive loop (running its deferred calls, or
\* gone with the result stream closed) only when stage A has ended its walk
\* and closed the handoff channel; as long as stage A has a frame left,
\* stop signal or not, stage B is inside its loop.
StageBLeavesAfterStageA ==
    \A p \in Pipes :
        p \in active =>
            /\ (bPc[p] \in {"wgDone", "close", "exited"} \/ outClosed[p]) =>
                  /\ indicesOutClosed[p]
                  /\ aPc[p] = "exited"
                  /\ aStack[p] = <<>>
            /\ aStack[p] # <<>> => bPc[p] \in {"recv", "convert", "select"}

\* stop was signalled while stage B held a result: stage B dropped it, went
\* back to receiving, was handed one more leaf, and left only after stage A
\* had closed the handoff channel
StageBOutlivedStopSignal ==
    \E p \in Pipes :
        /\ p \in active
        /\ lenItems = MaxN
        /\ stopInClosed[p]
        /\ lateHandoffs[p] >= 1
        /\ Len(received[p]) < handed[p] - 1
        /\ bPc[p] = "exited"
        /\ outClosed[p]
        /\ indicesOutClosed[p]

\* a frame is about to look at the stop its child call returned
StopUnwinding ==
    /\ cbPc = "run"
    /\ cbStack # <<>>
    /\ cbRet.has
    /\ cbRet.stop

\* the frame on top returns to its caller the very stop it was given
ReRaises ==
    /\ cbStack' = DropTop(cbStack)
    /\ cbRet' = cbRet

\* the frame on top drops the stop and calls its included branch
ClearsAndGoesRight ==
    /\ cbRet' = NoRet
    /\ Len(cbStack') = Len(cbStack) + 1
    /\ llToPath(Top(cbStack').path)[1] = PathNode(Top(cbStack).n, TRUE)

\* C35 as stated: while a stop unwinds, a frame at depth a > resumeLevel
\* re-raises the same stop without walking its included branch, and a frame
\* at depth a <= resumeLevel does not return stop=true to its caller.
StopClearedAtResumeLevel ==
    [][StopUnwinding =>
          IF Top(cbStack).n > cbRet.stopNode
          THEN ReRaises
          ELSE ~(cbRet'.has /\ cbRet'.stop)]_vars

\* C35, amended: while a stop unwinds, a frame at depth a > resumeLevel
\* re-raises the same stop without walking its included branch; a frame at
\* depth a <= resumeLevel that got the stop from its excluded branch clears
\* it and walks its included branch; a frame that got the stop from its
\* included branch returns it unchanged, whatever its depth.
StopClearedAfterExcludedBranch ==
    [][StopUnwinding =>
          IF Top(cbStack).n > cbRet.stopNode \/ Top(cbStack).pc = "right"
          THEN ReRaises
          ELSE ClearsAndGoesRight]_vars

\* the frame of depth 1 has just returned to the root, from its included
\* branch, a stop whose resumeLevel is 1; the root, inside its excluded
\* branch, is about to clear it
StopReturnedAtResumeLevel ==
    /\ lenItems = MaxN
    /\ StopUnwinding
    /\ cbRet.stopNode = 1
    /\ Len(cbStack) = 1
    /\ Top(cbStack).pc = "left"
    /\ calls[Len(calls)].path = <<PathNode(1, TRUE), PathNode(0, FALSE)>>

\* a sequence back to front
RECURSIVE Reverse(_)
Reverse(seq) == IF seq = <<>> THEN <<>> ELSE Append(Reverse(Tail(seq)), Head(seq))

\* C36: llToIndicesFixed(n, list) returns a boolean vector of length n that
\* is true exactly at the indices pushed on the list, all false for the
\* empty list; llToIndicesVariable(list) returns the pushed indices, the
\* latest push first, nothing for the empty list; pushing 1, 2, 0 yields
\* 0, 2, 1.
ConversionsFollowList ==
    llPc = "returned" =>
        /\ llFn = "fixed" =>
              /\ Len(llResult) = lenItems
              /\ \A i \in 0..(lenItems - 1) :
                    llResult[i + 1] <=> \E j \in 1..Len(llPushed) : llPushed[j] = i
              /\ llPushed = <<>> => llResult = [i \in 1..lenItems |-> FALSE]
        /\ llFn = "variable" =>
              /\ llResult = Reverse(llPushed)
              /\ llPushed = <<>> => llResult = <<>>
              /\ llPushed = <<1, 2, 0>> => llResult = <<0, 2, 1>>

\* TestLinkedListToVar: 1, 2 and 0 pushed, converted to 0, 2, 1
ConvertedPushedOneTwoZero ==
    /\ lenItems = 3
    /\ llFn = "variable"
    /\ llPushed = <<1, 2, 0>>
    /\ llPc = "returned"
    /\ llResult = <<0, 2, 1>>

====
